---- MODULE Spec2Model ----
(***************************************************************************)
(* A model of gpt_bot.py: split_long_string, send_message_to_chatgpt with  *)
(* its tenacity retry, and GptBot (on_ready, send_periodic_message, the g  *)
(* command, _retract_last_n_message).                                      *)
(*                                                                         *)
(* A text is a sequence of one-character strings.  A list object of the    *)
(* Python heap is an entry of `lists`; self.messages is a reference into   *)
(* it, because _retract_last_n_message rebinds the attribute to a new list *)
(* while a running send_message_to_chatgpt keeps the list it was given.    *)
(***************************************************************************)
EXTENDS Integers, Sequences, FiniteSets, TLC

VARIABLES
    lists,          \* heap of list objects: list id -> sequence of entries
    messages,       \* self.messages: the id of the list the attribute is bound to
    initialized,    \* self.initialized
    cadence,        \* self.cadence
    user,           \* what fetch_user yields: "user" or "None"
    clock,          \* the wall clock, datetime.datetime.now()
    pc,             \* where the send_periodic_message task stands
    lines,          \* chunks of the plan still to be sent by the for loop
    delay,          \* seconds_till_next_run of the current sleep
    calls,          \* caller -> the caller's send_message_to_chatgpt activation; n counts
                    \* the caller's calls and tries lists the endpoint's outcomes
    cmd,            \* command number -> where that g handler stands
    sent,           \* everything handed to the chat transport, in order
    ready,          \* number of readiness signals so far
    tasks,          \* number of send_periodic_message tasks created
    ticks,          \* number of scheduler wake-ups so far
    text,           \* split_long_string: argument text
    max_length,     \* split_long_string: argument max_length
    result          \* split_long_string: [called, segments], the returned list

vars == <<lists, messages, initialized, cadence, user, clock, pc, lines, delay,
          calls, cmd, sent, ready, tasks, ticks, text, max_length, result>>

botVars == <<lists, messages, initialized, user, pc, lines, calls, cmd, sent,
             ready, tasks, ticks>>

----------------------------------------------------------------------------
(* Bounds of the model *)

MaxTextLen == 4      \* longest text given to split_long_string on its own
MaxSplitLen == 4     \* largest max_length given to split_long_string on its own
MaxCadence == 5      \* largest cadence (hours)

----------------------------------------------------------------------------
(* Texts *)

Whitespace == {" ", "\t", "\n"}

Rep(n, c) == [i \in 1..n |-> c]

\* The state keeps a text packed: the sequence of its runs <<character, count>>.
\* Every operation of the program is applied to the unpacked text.
Pack(s) ==
    LET starts == {i \in 1..Len(s) : i = 1 \/ s[i] # s[i - 1]}
        n == Cardinality(starts)
        at(k) == IF k = n + 1 THEN Len(s) + 1
                 ELSE CHOOSE i \in starts : Cardinality({j \in starts : j <= i}) = k
    IN  [k \in 1..n |-> <<s[at(k)], at(k + 1) - at(k)>>]

RECURSIVE PackedLen(_)
PackedLen(p) == IF p = <<>> THEN 0 ELSE p[1][2] + PackedLen(Tail(p))

Unpack(p) ==
    LET upto(k) == PackedLen(SubSeq(p, 1, k))
    IN  [i \in 1..PackedLen(p) |->
            p[CHOOSE k \in 1..Len(p) : upto(k - 1) < i /\ i <= upto(k)][1]]

\* s.strip(): s without its leading and trailing whitespace
strip(s) ==
    LET keep == {i \in 1..Len(s) : s[i] \notin Whitespace}
    IN  IF keep = {} THEN <<>>
        ELSE LET lo == CHOOSE i \in keep : \A j \in keep : i <= j
                 hi == CHOOSE i \in keep : \A j \in keep : j <= i
             IN  SubSeq(s, lo, hi)

\* s.split(' '): the pieces of s between single spaces (empty pieces kept)
split(s) ==
    LET sp == {i \in 1..Len(s) : s[i] = " "}
        n == Cardinality(sp) + 1
        bnd(k) == IF k = 0 THEN 0
                  ELSE IF k = n THEN Len(s) + 1
                  ELSE CHOOSE i \in sp : Cardinality({j \in sp : j <= i}) = k
    IN  [k \in 1..n |-> SubSeq(s, bnd(k - 1) + 1, bnd(k) - 1)]

----------------------------------------------------------------------------
(* split_long_string *)

MAX_MESSAGE_LENGTH == 2000

\* The for loop of split_long_string from word i on; st = [result, current_line].
RECURSIVE split_loop(_, _, _, _)
split_loop(words, i, st, maxlen) ==
    IF i > Len(words) THEN st
    ELSE LET word == words[i]
         IN  IF Len(st.current_line) + 1 + Len(word) <= maxlen
             THEN split_loop(words, i + 1,
                     [result |-> st.result,
                      current_line |-> st.current_line \o <<" ">> \o word], maxlen)
             ELSE split_loop(words, i + 1,
                     [result |-> Append(st.result, strip(st.current_line)),
                      current_line |-> word], maxlen)

split_long_string(txt, maxlen) ==
    LET st == split_loop(split(txt), 1, [result |-> <<>>, current_line |-> <<>>], maxlen)
    IN  IF st.current_line # <<>>
        THEN Append(st.result, strip(st.current_line))
        ELSE st.result

----------------------------------------------------------------------------
(* The scheduler arithmetic of send_periodic_message *)

Hours == 0..23

\* seconds_till_next_hour with now.second forgotten
seconds_till_next_hour_no_second(now) ==
    LET whole == 3600 - now.minute * 60
    IN  IF now.microsecond = 0
        THEN [sec |-> whole, us |-> 0]
        ELSE [sec |-> whole - 1, us |-> 1000000 - now.microsecond]

\* 3600 - now.minute * 60 - now.second - now.microsecond / 1_000_000, kept exact
\* as whole seconds plus microseconds
seconds_till_next_hour(now) ==
    LET whole == 3600 - now.minute * 60 - now.second
    IN  IF now.microsecond = 0
        THEN [sec |-> whole, us |-> 0]
        ELSE [sec |-> whole - 1, us |-> 1000000 - now.microsecond]

more_hours(now, cad) == (now.hour + 1) % cad

seconds_till_next_run(now, cad) ==
    LET h == seconds_till_next_hour(now)
    IN  [sec |-> h.sec + more_hours(now, cad) * 3600, us |-> h.us]

\* now + d, for a datetime now and a duration d
TimeAfter(now, d) ==
    LET us == now.microsecond + d.us
        s == ((now.day * 24 + now.hour) * 60 + now.minute) * 60 + now.second
             + d.sec + (us \div 1000000)
    IN  [day |-> s \div 86400, hour |-> (s \div 3600) % 24,
         minute |-> (s \div 60) % 60, second |-> s % 60,
         microsecond |-> us % 1000000]

----------------------------------------------------------------------------
(* Literal texts of the program and of the modelled session *)

\* The backquote character, which a TLA+ string cannot hold, is written "'".
BQ == "'"

InstructionPrefix ==
    <<"Y", "o", "u", "r", " ", "i", "n", "i", "t", "i", "a", "l", " ", "i",
      "n", "s", "t", "r", "u", "c", "t", "i", "o", "n", " ", "t", "o", " ",
      "C", "h", "a", "t", "G", "P", "T", ":", " ", BQ, BQ, BQ>>

InstructionSuffix == <<BQ, BQ, BQ>>

GeneratingNotice ==
    <<"C", "h", "a", "t", "G", "P", "T", " ", "i", "s", " ", "n", "o", "w",
      " ", "g", "e", "n", "e", "r", "a", "t", "i", "n", "g", " ", "t", "h",
      "e", " ", "p", "l", "a", "n", " ", "f", "o", "r", " ", "y", "o", "u",
      ".", ".", ".">>

SchedulerPrefix == <<"S", "C", "H", "E", "D", "U", "L", "E", "R", ":", " ">>

NothingToDoNow ==
    <<"n", "o", "t", "h", "i", "n", "g", " ", "t", "o", " ", "d", "o", " ",
      "n", "o", "w">>

\* The session's configuration (constructor arguments) and the g command's argument
task_prompt == <<"P", "l", "a", "n", " ", "m", "y", " ", "d", "a", "y">>

loop_prompt ==
    <<"R", "e", "m", "i", "n", "d", " ", "m", "e", " ", "h", "o", "u", "r",
      "l", "y">>

GMessage == <<"h", "i">>

\* What the completion endpoint may answer: a short reply, a reply holding the
\* filler phrase in mixed case, and a reply of 2001 characters in two words.
ShortReply == <<"D", "r", "i", "n", "k", " ", "w", "a", "t", "e", "r">>

FillerReply ==
    <<"N", "o", "t", "h", "i", "n", "g", " ", "T", "o", " ", "D", "o", " ",
      "N", "o", "w", ".">>

LongReply == Rep(1000, "x") \o <<" ">> \o Rep(1000, "y")

Replies == {Pack(ShortReply), Pack(FillerReply), Pack(LongReply)}

UpperCase ==
    <<"A", "B", "C", "D", "E", "F", "G", "H", "I", "J", "K", "L", "M", "N",
      "O", "P", "Q", "R", "S", "T", "U", "V", "W", "X", "Y", "Z">>

LowerCase ==
    <<"a", "b", "c", "d", "e", "f", "g", "h", "i", "j", "k", "l", "m", "n",
      "o", "p", "q", "r", "s", "t", "u", "v", "w", "x", "y", "z">>

Digits == <<"0", "1", "2", "3", "4", "5", "6", "7", "8", "9">>

\* s.lower()
lower(s) ==
    [i \in 1..Len(s) |->
        IF \E k \in 1..Len(UpperCase) : UpperCase[k] = s[i]
        THEN LowerCase[CHOOSE k \in 1..Len(UpperCase) : UpperCase[k] = s[i]]
        ELSE s[i]]

\* sub in s
in(sub, s) ==
    \E i \in 0..(Len(s) - Len(sub)) : SubSeq(s, i + 1, i + Len(sub)) = sub

TwoDigits(n) == <<Digits[(n \div 10) + 1], Digits[(n % 10) + 1]>>

\* now.strftime("%m/%d/%Y %H:%M:%S"); day 0 of the model is 01/01/2024
strftime(now) ==
    <<"0", "1", "/">> \o TwoDigits(now.day + 1) \o <<"/", "2", "0", "2", "4", " ">>
    \o TwoDigits(now.hour) \o <<":">> \o TwoDigits(now.minute) \o <<":">>
    \o TwoDigits(now.second)

----------------------------------------------------------------------------
(* The bot *)

MaxReady == 2        \* readiness signals delivered
MaxCmds == 1         \* g commands issued
MaxTicks == 1        \* wake-ups of the periodic loop

Periodic == 0                   \* the caller id of send_periodic_message
Cmds == 1..MaxCmds              \* the caller ids of the g handlers
Callers == {Periodic} \cup Cmds
ListIds == 0..MaxTicks          \* the list of __init__ and one per retraction

StartClock ==
    [day |-> 0, hour |-> 2, minute |-> 15, second |-> 0, microsecond |-> 0]
NoDelay == [sec |-> 0, us |-> 0]

NotCalled == [called |-> FALSE, segments |-> <<>>]

NoCall ==
    [pc |-> "idle", messages |-> 0, message |-> <<>>, n |-> 0, attempt |-> 0,
     response |-> <<>>, tries |-> <<>>]

BotInit ==
    /\ lists = [l \in ListIds |-> <<>>]
    /\ messages = 0
    /\ initialized = FALSE
    /\ user \in {"user", "None"}
    /\ pc = "not_started"
    /\ lines = <<>>
    /\ calls = [c \in Callers |-> NoCall]
    /\ cmd = [c \in Cmds |-> "idle"]
    /\ sent = <<>>
    /\ ready = 0
    /\ tasks = 0
    /\ ticks = 0

Init ==
    /\ BotInit
    /\ cadence = 3
    /\ clock = StartClock
    /\ delay = NoDelay
    /\ text = <<>>
    /\ max_length = 0
    /\ result = NotCalled

(* send_message_to_chatgpt, run in an executor thread for caller c *)

\* stop_after_attempt one too large
stop_after_attempt_plus_one == 3 + 1

stop_after_attempt == 3

\* loop.run_in_executor(None, send_message_to_chatgpt, self.messages, message, model):
\* the activation gets the list self.messages is bound to at this moment, and the
\* (packed) message.  An entry of a list is the dict of the program plus `call`,
\* which names the activation that appended it: <<caller, number of the call>>.
run_in_executor(c, message) ==
    calls' = [calls EXCEPT ![c] =
                [pc |-> "append_user", messages |-> messages, message |-> message,
                 n |-> calls[c].n + 1, attempt |-> 0, response |-> <<>>,
                 tries |-> <<>>]]

\* the awaiting coroutine took the outcome of c's activation
taken(c) == [NoCall EXCEPT !.n = calls[c].n]

\* messages.append({"content": message, "role": "user"})
append_user(c) ==
    /\ calls[c].pc = "append_user"
    /\ LET e == [content |-> calls[c].message, role |-> "user",
                 call |-> <<c, calls[c].n>>]
       IN  /\ lists' = [lists EXCEPT ![calls[c].messages] = Append(@, e)]
           /\ calls' = [calls EXCEPT ![c].pc = "api"]
    /\ UNCHANGED <<messages, initialized, cadence, user, clock, pc, lines, delay,
                   cmd, sent, ready, tasks, ticks, text, max_length, result>>

\* call_openai_chat_api with the user entry appended by the retried function: a
\* failed attempt that is retried appends it again
call_openai_chat_api_reappend(c) ==
    /\ calls[c].pc = "api"
    /\ \/ /\ \E r \in Replies :
                calls' = [calls EXCEPT ![c].attempt = @ + 1,
                                       ![c].tries = Append(@, [ok |-> TRUE, reply |-> r]),
                                       ![c].response = r,
                                       ![c].pc = "append_reply"]
          /\ UNCHANGED lists
       \/ /\ calls' = [calls EXCEPT ![c].attempt = @ + 1,
                                    ![c].tries = Append(@, [ok |-> FALSE, reply |-> <<>>]),
                                    ![c].pc = IF calls[c].attempt + 1 >= stop_after_attempt
                                              THEN "raised" ELSE "api"]
          /\ lists' = [lists EXCEPT ![calls[c].messages] =
                          IF calls[c].attempt + 1 >= stop_after_attempt THEN @
                          ELSE Append(@, [content |-> calls[c].message, role |-> "user",
                                          call |-> <<c, calls[c].n>>])]
    /\ UNCHANGED <<messages, initialized, cadence, user, clock, pc, lines,
                   delay, cmd, sent, ready, tasks, ticks, text, max_length, result>>

\* One attempt of call_openai_chat_api under @retry: the endpoint answers, or it
\* fails and tenacity tries again until stop_after_attempt attempts were made.
call_openai_chat_api(c) ==
    /\ calls[c].pc = "api"
    /\ \/ \E r \in Replies :
             calls' = [calls EXCEPT ![c].attempt = @ + 1,
                                    ![c].tries = Append(@, [ok |-> TRUE, reply |-> r]),
                                    ![c].response = r,
                                    ![c].pc = "append_reply"]
       \/ calls' = [calls EXCEPT ![c].attempt = @ + 1,
                                 ![c].tries = Append(@, [ok |-> FALSE, reply |-> <<>>]),
                                 ![c].pc = IF calls[c].attempt + 1 >= stop_after_attempt
                                           THEN "raised" ELSE "api"]
    /\ UNCHANGED <<lists, messages, initialized, cadence, user, clock, pc, lines,
                   delay, cmd, sent, ready, tasks, ticks, text, max_length, result>>

\* messages.append({"content": gpt_response, "role": "system"}); return gpt_response
append_reply(c) ==
    /\ calls[c].pc = "append_reply"
    /\ LET e == [content |-> calls[c].response, role |-> "system",
                 call |-> <<c, calls[c].n>>]
       IN  /\ lists' = [lists EXCEPT ![calls[c].messages] = Append(@, e)]
           /\ calls' = [calls EXCEPT ![c].pc = "returned"]
    /\ UNCHANGED <<messages, initialized, cadence, user, clock, pc, lines, delay,
                   cmd, sent, ready, tasks, ticks, text, max_length, result>>

(* GptBot *)

\* user.send(t) / ctx.send(t): the (packed) text t is handed to the chat transport
send(to, t) == sent' = Append(sent, [to |-> to, text |-> t])

\* the slice taken from the wrong end: self.messages[n:]
_retract_first_n_message(n) ==
    /\ messages' = messages + 1
    /\ lists' = [lists EXCEPT ![messages + 1] =
                    SubSeq(lists[messages], n + 1, Len(lists[messages]))]

\* self.messages = self.messages[:-n]: a new list, bound to the attribute
_retract_last_n_message(n) ==
    /\ messages' = messages + 1
    /\ lists' = [lists EXCEPT ![messages + 1] =
                    SubSeq(lists[messages], 1, Len(lists[messages]) - n)]

\* the guard of on_ready left out
never_initialized == FALSE

\* the guard of on_ready
already_initialized == initialized

on_ready ==
    /\ ready < MaxReady
    /\ ready' = ready + 1
    /\ IF already_initialized
       THEN UNCHANGED <<initialized, pc, tasks>>
       ELSE /\ tasks' = tasks + 1          \* asyncio.create_task
            /\ pc' = "fetch_user"
            /\ initialized' = TRUE
    /\ UNCHANGED <<lists, messages, cadence, user, clock, lines, delay, calls, cmd,
                   sent, ticks, text, max_length, result>>

\* f"Your initial instruction to ChatGPT: ```{self.task_prompt}```"
task_instruction == InstructionPrefix \o task_prompt \o InstructionSuffix

\* f"SCHEDULER: {time}", packed (the text is built once, then packed)
scheduler_message(now) ==
    CHOOSE p \in {Pack(m) : m \in {SchedulerPrefix \o strftime(now)}} : TRUE

\* the test "user is not None" left out
fetch_user_unchecked ==
    /\ pc = "fetch_user"
    /\ send("user", Pack(task_instruction))
    /\ pc' = "sent_task"
    /\ UNCHANGED <<lists, messages, initialized, cadence, user, clock, lines, delay,
                   calls, cmd, ready, tasks, ticks, text, max_length, result>>

\* user = await self.fetch_user(...); if user is not None: await user.send(task)
fetch_user ==
    /\ pc = "fetch_user"
    /\ IF user = "None"
       THEN pc' = "done" /\ UNCHANGED sent
       ELSE /\ send("user", Pack(task_instruction))
            /\ pc' = "sent_task"
    /\ UNCHANGED <<lists, messages, initialized, cadence, user, clock, lines, delay,
                   calls, cmd, ready, tasks, ticks, text, max_length, result>>

\* the notice not sent before the first completion call
send_notice_skipped ==
    /\ pc = "sent_task"
    /\ pc' = "sent_notice"
    /\ UNCHANGED <<lists, messages, initialized, cadence, user, clock, lines, delay,
                   calls, cmd, sent, ready, tasks, ticks, text, max_length, result>>

\* await user.send("ChatGPT is now generating the plan for you...")
send_notice ==
    /\ pc = "sent_task"
    /\ send("user", Pack(GeneratingNotice))
    /\ pc' = "sent_notice"
    /\ UNCHANGED <<lists, messages, initialized, cadence, user, clock, lines, delay,
                   calls, cmd, ready, tasks, ticks, text, max_length, result>>

\* gpt_response = await loop.run_in_executor(..., self.task_prompt, ...)
call_task ==
    /\ pc = "sent_notice"
    /\ run_in_executor(Periodic, Pack(task_prompt))
    /\ pc' = "call_task"
    /\ UNCHANGED <<lists, messages, initialized, cadence, user, clock, lines, delay,
                   cmd, sent, ready, tasks, ticks, text, max_length, result>>

\* what the handshake sends for the plan, in order
plan_lines(gpt_response) ==
    IF Len(gpt_response) > MAX_MESSAGE_LENGTH
    THEN split_long_string(gpt_response, MAX_MESSAGE_LENGTH)
    ELSE <<gpt_response>>

\* plan_lines of every answer the endpoint can give, each line packed (tabulated
\* once: the answers are drawn from Replies)
plan_lines_of ==
    [r \in Replies |->
        LET ls == plan_lines(Unpack(r)) IN [k \in 1..Len(ls) |-> Pack(ls[k])]]

\* the first call returned: the first user.send of the plan
send_plan ==
    /\ pc = "call_task"
    /\ calls[Periodic].pc = "returned"
    /\ LET ls == plan_lines_of[calls[Periodic].response]
       IN  /\ send("user", Head(ls))
           /\ lines' = Tail(ls)
    /\ pc' = "sent_plan"
    /\ calls' = [calls EXCEPT ![Periodic] = taken(Periodic)]
    /\ UNCHANGED <<lists, messages, initialized, cadence, user, clock, delay, cmd, ready, tasks, ticks, text, max_length, result>>

\* the next iteration of: for line in split_long_string(gpt_response)
send_line ==
    /\ pc = "sent_plan"
    /\ lines # <<>>
    /\ send("user", Head(lines))
    /\ lines' = Tail(lines)
    /\ UNCHANGED <<lists, messages, initialized, cadence, user, clock, pc, delay,
                   calls, cmd, ready, tasks, ticks, text, max_length, result>>

\* _ = await loop.run_in_executor(..., self.loop_prompt, ...)
call_loop ==
    /\ pc = "sent_plan"
    /\ lines = <<>>
    /\ run_in_executor(Periodic, Pack(loop_prompt))
    /\ pc' = "call_loop"
    /\ UNCHANGED <<lists, messages, initialized, cadence, user, clock, lines, delay,
                   cmd, sent, ready, tasks, ticks, text, max_length, result>>

\* the top of the while loop: compute seconds_till_next_run, asyncio.sleep
sleep ==
    /\ delay' = seconds_till_next_run(clock, cadence)
    /\ pc' = "sleep"

\* the second call returned and its reply is sent to the recipient
enter_loop_delivering ==
    /\ pc = "call_loop"
    /\ calls[Periodic].pc = "returned"
    /\ sleep
    /\ send("user", calls[Periodic].response)
    /\ calls' = [calls EXCEPT ![Periodic] = taken(Periodic)]
    /\ UNCHANGED <<lists, messages, initialized, cadence, user, clock, lines, cmd, ready, tasks, ticks, text, max_length, result>>

\* the second call returned: its reply is dropped and the loop is entered
enter_loop ==
    /\ pc = "call_loop"
    /\ calls[Periodic].pc = "returned"
    /\ sleep
    /\ calls' = [calls EXCEPT ![Periodic] = taken(Periodic)]
    /\ UNCHANGED <<lists, messages, initialized, cadence, user, clock, lines, cmd, sent, ready, tasks, ticks, text, max_length, result>>

\* asyncio.sleep is over: time = now().strftime(...); the tick's call is submitted
wake ==
    /\ pc = "sleep"
    /\ ticks < MaxTicks
    /\ ticks' = ticks + 1
    /\ clock' = TimeAfter(clock, delay)
    /\ run_in_executor(Periodic, scheduler_message(clock'))
    /\ pc' = "call_tick"
    /\ UNCHANGED <<lists, messages, initialized, cadence, user, lines, delay, cmd,
                   sent, ready, tasks, text, max_length, result>>

\* the test without .lower()
is_filler_case_sensitive(gpt_response) == in(NothingToDoNow, gpt_response)

\* "nothing to do now" in gpt_response.lower()
is_filler(gpt_response) == in(NothingToDoNow, lower(gpt_response))

\* is_filler of every answer the endpoint can give (tabulated once)
is_filler_of == [r \in Replies |-> is_filler(Unpack(r))]

\* the tick's call returned: retract and continue, or user.send(gpt_response)
tick_reply ==
    /\ pc = "call_tick"
    /\ calls[Periodic].pc = "returned"
    /\ IF is_filler_of[calls[Periodic].response]
       THEN /\ _retract_last_n_message(2)
            /\ sleep
            /\ UNCHANGED sent
       ELSE /\ send("user", calls[Periodic].response)
            /\ pc' = "sent_tick"
            /\ UNCHANGED <<lists, messages, delay>>
    /\ calls' = [calls EXCEPT ![Periodic] = taken(Periodic)]
    /\ UNCHANGED <<initialized, cadence, user, clock, lines, cmd, ready,
                   tasks, ticks, text, max_length, result>>

\* user.send of the tick returned: back to the top of the loop
next_tick ==
    /\ pc = "sent_tick"
    /\ sleep
    /\ UNCHANGED <<lists, messages, initialized, cadence, user, clock, lines, calls,
                   cmd, sent, ready, tasks, ticks, text, max_length, result>>

\* the awaited call raised (retries exhausted): the exception ends the task
task_raise ==
    /\ pc \in {"call_task", "call_loop", "call_tick"}
    /\ calls[Periodic].pc = "raised"
    /\ pc' = "failed"
    /\ calls' = [calls EXCEPT ![Periodic] = taken(Periodic)]
    /\ UNCHANGED <<lists, messages, initialized, cadence, user, clock, lines, delay,
                   cmd, sent, ready, tasks, ticks, text, max_length, result>>

\* the g command: gpt_response = await loop.run_in_executor(..., message, ...)
g(c) ==
    /\ cmd[c] = "idle"
    /\ run_in_executor(c, Pack(GMessage))
    /\ cmd' = [cmd EXCEPT ![c] = "call"]
    /\ UNCHANGED <<lists, messages, initialized, cadence, user, clock, pc, lines,
                   delay, sent, ready, tasks, ticks, text, max_length, result>>

\* await ctx.send(gpt_response)
g_reply(c) ==
    /\ cmd[c] = "call"
    /\ calls[c].pc = "returned"
    /\ send("ctx", calls[c].response)
    /\ cmd' = [cmd EXCEPT ![c] = "done"]
    /\ calls' = [calls EXCEPT ![c] = taken(c)]
    /\ UNCHANGED <<lists, messages, initialized, cadence, user, clock, pc, lines,
                   delay, ready, tasks, ticks, text, max_length, result>>

\* the call of the g handler raised: the command fails
g_raise(c) ==
    /\ cmd[c] = "call"
    /\ calls[c].pc = "raised"
    /\ cmd' = [cmd EXCEPT ![c] = "failed"]
    /\ calls' = [calls EXCEPT ![c] = taken(c)]
    /\ UNCHANGED <<lists, messages, initialized, cadence, user, clock, pc, lines,
                   delay, sent, ready, tasks, ticks, text, max_length, result>>

Next ==
    \/ on_ready
    \/ fetch_user
    \/ send_notice
    \/ call_task
    \/ send_plan
    \/ send_line
    \/ call_loop
    \/ enter_loop
    \/ wake
    \/ tick_reply
    \/ next_tick
    \/ task_raise
    \/ \E c \in Cmds : g(c)
    \/ \E c \in Cmds : g_reply(c)
    \/ \E c \in Cmds : g_raise(c)
    \/ \E c \in Callers : append_user(c)
    \/ \E c \in Callers : call_openai_chat_api(c)
    \/ \E c \in Callers : append_reply(c)

Spec == Init /\ [][Next]_vars

----------------------------------------------------------------------------
(* Claims about the bot (under Spec) *)

\* the entries of list l that activation <<c, n>> appended, in order
EntriesOf(l, c, n) ==
    LET mine(e) == e.call = <<c, n>>
    IN  SelectSeq(lists[l], mine)

\* C1: a call of send_message_to_chatgpt that returns has appended exactly two
\* entries to the list it was given, the user entry with its message and then the
\* system entry with the reply, whichever attempt succeeded.
C1_TwoEntries ==
    \A c \in Callers :
        calls[c].pc = "returned" =>
            LET mine == EntriesOf(calls[c].messages, c, calls[c].n)
            IN  /\ Len(mine) = 2
                /\ mine[1].role = "user" /\ mine[1].content = calls[c].message
                /\ mine[2].role = "system" /\ mine[2].content = calls[c].response

C1_Witness ==
    \E c \in Callers :
        /\ calls[c].pc = "returned"
        /\ calls[c].attempt = 3
        /\ Len(EntriesOf(calls[c].messages, c, calls[c].n)) = 2

\* C2: one call invokes the endpoint at most 3 times, makes no attempt after one
\* that succeeded, returns the reply of that attempt, and raises without a reply
\* exactly when all 3 attempts failed.
C2_AtMostThreeAttempts ==
    \A c \in Callers :
        LET t == calls[c].tries
        IN  /\ Len(t) <= 3
            /\ \A k \in 1..(Len(t) - 1) : ~ t[k].ok
            /\ calls[c].pc \in {"append_reply", "returned"} =>
                  /\ t # <<>>
                  /\ t[Len(t)].ok
                  /\ calls[c].response = t[Len(t)].reply
            /\ calls[c].pc = "raised" =>
                  /\ Len(t) = 3
                  /\ \A k \in 1..3 : ~ t[k].ok
                  /\ calls[c].response = <<>>
            /\ (Len(t) = 3 /\ ~ t[3].ok) => calls[c].pc = "raised"
            /\ calls[c].pc = "api" => Len(t) < 3

C2_Witness ==
    \E c \in Callers : calls[c].pc = "raised" /\ Len(calls[c].tries) = 3

\* the replies of the endpoint that hold the phrase "nothing to do now" in some
\* letter case
WithPhrase == {Pack(FillerReply)}

\* C3: when a tick's call has returned, the step that takes the reply removes
\* exactly the last 2 entries of the store and sends nothing if the reply holds the
\* phrase, and otherwise removes nothing and sends the reply to the recipient.
C3_FillerSuppression ==
    [][(pc = "call_tick" /\ calls[Periodic].pc = "returned" /\ pc' # pc) =>
          IF calls[Periodic].response \in WithPhrase
          THEN /\ Len(lists[messages]) >= 2
               /\ lists'[messages'] = SubSeq(lists[messages], 1, Len(lists[messages]) - 2)
               /\ sent' = sent
          ELSE /\ lists'[messages'] = lists[messages]
               /\ sent' = Append(sent, [to |-> "user", text |-> calls[Periodic].response])
      ]_vars

\* a tick whose reply held the phrase was taken: the store was rebound to the
\* shortened list and the loop sleeps again
C3_Witness ==
    /\ ticks = 1
    /\ pc = "sleep"
    /\ messages = 1
    /\ Len(lists[1]) = 4

\* C4: every message handed to the chat transport has length at most 2000.
C4_LengthCeiling ==
    \A k \in 1..Len(sent) : PackedLen(sent[k].text) <= MAX_MESSAGE_LENGTH

\* C6: the first readiness signal creates the send_periodic_message task, and a
\* later one creates no task, sends nothing and leaves the store as it is.
C6_ReadyOnce ==
    [][ready' # ready =>
          IF ready = 0
          THEN tasks' = 1 /\ pc' = "fetch_user"
          ELSE UNCHANGED <<tasks, pc, lines, lists, messages, calls, cmd, sent>>
      ]_vars

C6_Witness == ready = 2 /\ tasks = 1 /\ initialized

\* what was sent to the configured recipient, in order
ToUser ==
    LET isUser(m) == m.to = "user"
        ms == SelectSeq(sent, isUser)
    IN  [k \in 1..Len(ms) |-> ms[k].text]

\* the reply of the first completion call of the task, as a set (empty before)
FirstReply ==
    {lists[0][k].content : k \in {j \in 1..Len(lists[0]) :
        lists[0][j].call = <<Periodic, 1>> /\ lists[0][j].role = "system"}}

\* a reply as it is to be delivered: whole, or in its chunks when oversized
LongReplyChunks == <<Pack(Rep(1000, "x")), Pack(Rep(1000, "y"))>>

PackedLongReply == Pack(LongReply)

Chunks(r) == IF r = PackedLongReply THEN LongReplyChunks ELSE <<r>>

HandshakeHead == <<Pack(task_instruction), Pack(GeneratingNotice)>>

\* C7: the recipient receives the task instruction, then the notice, then the
\* first reply (whole or in its chunks, in order) before anything else; the notice
\* is sent before the first completion call is issued, and the plan is complete
\* before the loop instruction is sent to the model.
C7_HandshakeOrder ==
    LET expected == IF FirstReply = {} THEN HandshakeHead
                    ELSE HandshakeHead \o Chunks(CHOOSE r \in FirstReply : TRUE)
    IN  /\ \A k \in 1..Len(ToUser) :
              IF k <= Len(expected) THEN ToUser[k] = expected[k]
              ELSE FirstReply # {} /\ ticks >= 1
        /\ calls[Periodic].n >= 1 => Len(ToUser) >= 2
        /\ calls[Periodic].n >= 2 => Len(ToUser) >= Len(expected)

C7_Witness ==
    /\ pc = "call_loop"
    /\ ToUser = HandshakeHead \o LongReplyChunks

\* C11: in the conversation store, the user entry of a completion call and the
\* system entry of the same call are adjacent: no entry of another call lies
\* between them.
C11_TurnOrder ==
    LET store == lists[messages]
    IN  \A i \in 1..Len(store) : \A j \in 1..Len(store) :
            (/\ store[i].role = "user"
             /\ store[j].role = "system"
             /\ store[i].call = store[j].call) => j = i + 1

\* where an activation of send_message_to_chatgpt is running in its thread
InProgress == {"append_user", "api", "append_reply"}

\* C12: at most one call of send_message_to_chatgpt is in progress at a time.
C12_OneOutstanding ==
    Cardinality({c \in Callers : calls[c].pc \in InProgress}) <= 1

\* C13: the step that suppresses a tick's filler reply removes the two entries of
\* that tick's own call (its SCHEDULER marker and its reply), and afterwards no
\* entry of that call is in the store.
C13_OwnEntriesRemoved ==
    [][(/\ pc = "call_tick"
        /\ calls[Periodic].pc = "returned"
        /\ calls[Periodic].response \in WithPhrase
        /\ pc' # pc) =>
          LET store == lists[messages]
              tick == <<Periodic, calls[Periodic].n>>
          IN  /\ Len(store) >= 2
              /\ store[Len(store) - 1].call = tick
              /\ store[Len(store)].call = tick
              /\ \A k \in 1..Len(lists'[messages']) : lists'[messages'][k].call # tick
      ]_vars

\* C14: at the step in which a g command sends its reply to the issuer, the
\* conversation store holds the user entry and the system entry of the command's
\* call, in this order.
C14_CommandInStore ==
    [][\A c \in Cmds :
          (cmd[c] = "call" /\ cmd'[c] = "done") =>
              LET tag == <<c, calls[c].n>>
                  at == {k \in 1..Len(lists'[messages']) : lists'[messages'][k].call = tag}
              IN  /\ Cardinality(at) = 2
                  /\ \E k \in at : \E j \in at :
                        /\ k < j
                        /\ lists'[messages'][k].role = "user"
                        /\ lists'[messages'][k].content = calls[c].message
                        /\ lists'[messages'][j].role = "system"
                        /\ lists'[messages'][j].content = calls[c].response
      ]_vars

\* the states of the task in which it is inside its while loop
Looping == {"sleep", "call_tick", "sent_tick"}

\* C15: once the task is inside its while loop, it stays there.
C15_LoopForever == [][(pc \in Looping) => (pc' \in Looping)]_vars

\* the latest call of caller c raised after its attempts were used up
Failed(c) ==
    \/ calls[c].pc = "raised"
    \/ IF c = Periodic THEN pc = "failed" ELSE cmd[c] = "failed"

\* C16: of a call that raised after its 3 attempts, the conversation store holds
\* exactly one entry, the user entry with the call's message, from then on.
C16_PartialEntry ==
    \A c \in Callers :
        Failed(c) =>
            LET mine == EntriesOf(messages, c, calls[c].n)
            IN  /\ Len(mine) = 1
                /\ mine[1].role = "user"
                /\ calls[c].pc = "raised" => mine[1].content = calls[c].message

PackedTaskPrompt == Pack(task_prompt)

PackedLoopPrompt == Pack(loop_prompt)

\* C17: when the task enters its loop and no g command has been issued, the store
\* holds exactly user(task prompt), system(first reply), user(loop prompt),
\* system(second reply), and the recipient has received the handshake and the
\* first reply only; later the recipient receives at most one message per tick,
\* so the second reply is never delivered.
C17_HandshakeHistory ==
    /\ (pc = "sleep" /\ ticks = 0 /\ \A c \in Cmds : cmd[c] = "idle") =>
          LET store == lists[messages]
          IN  /\ Len(store) = 4
              /\ store[1].role = "user" /\ store[1].content = PackedTaskPrompt
              /\ store[1].call = <<Periodic, 1>>
              /\ store[2].role = "system" /\ store[2].content \in Replies
              /\ store[2].call = <<Periodic, 1>>
              /\ store[3].role = "user" /\ store[3].content = PackedLoopPrompt
              /\ store[3].call = <<Periodic, 2>>
              /\ store[4].role = "system" /\ store[4].content \in Replies
              /\ store[4].call = <<Periodic, 2>>
              /\ ToUser = HandshakeHead \o Chunks(store[2].content)
    /\ FirstReply # {} =>
          Len(ToUser) <= 2 + Len(Chunks(CHOOSE r \in FirstReply : TRUE)) + ticks

C17_Witness ==
    /\ pc = "sleep"
    /\ ticks = 0
    /\ \A c \in Cmds : cmd[c] = "idle"
    /\ Len(lists[messages]) = 4
    /\ lists[messages][2].content # lists[messages][4].content

\* C18: when the conversation store is not empty, its first entry is the user
\* entry whose content is the task prompt.
C18_FirstTurn ==
    lists[messages] # <<>> =>
        /\ lists[messages][1].role = "user"
        /\ lists[messages][1].content = PackedTaskPrompt

\* C19: when fetch_user yields None, the task sends nothing, makes no completion
\* call, appends nothing, never enters its loop and does not fail, and a later
\* readiness signal creates no second task.
C19_NoRecipientNoOp ==
    user = "None" =>
        /\ pc \in {"not_started", "fetch_user", "done"}
        /\ ToUser = <<>>
        /\ calls[Periodic] = NoCall
        /\ \A l \in ListIds : \A k \in 1..Len(lists[l]) : lists[l][k].call[1] # Periodic
        /\ messages = 0
        /\ ticks = 0
        /\ lines = <<>>
        /\ tasks <= 1

C19_Witness ==
    /\ user = "None"
    /\ pc = "done"
    /\ ready >= 2
    /\ tasks = 1

\* C20: every step leaves the conversation store as it is, or appends entries at
\* its end, or, only in the step that suppresses a tick's filler reply, removes its
\* last 2 entries; an entry that stays keeps its place, role and content.
C20_Monotonic ==
    [][LET old == lists[messages]
           new == lists'[messages']
       IN  \/ new = old
           \/ /\ Len(new) > Len(old)
              /\ SubSeq(new, 1, Len(old)) = old
           \/ /\ pc = "call_tick" /\ pc' = "sleep"
              /\ calls[Periodic].response \in WithPhrase
              /\ Len(old) >= 2
              /\ new = SubSeq(old, 1, Len(old) - 2)
      ]_vars

\* a filler reply was suppressed and the store has grown again since
C20_Witness ==
    /\ messages = 1
    /\ ticks = 1
    /\ Len(lists[1]) > 4
    /\ \E c \in Cmds : cmd[c] = "done"

----------------------------------------------------------------------------
(* split_long_string on its own: every text over Alphabet up to MaxTextLen *)

Alphabet == {"a", "b", " ", "\n"}
Texts == UNION {[1..k -> Alphabet] : k \in 0..MaxTextLen}

SplitInit ==
    /\ BotInit
    /\ user = "user"
    /\ cadence = 3
    /\ clock = StartClock
    /\ delay = NoDelay
    /\ text \in Texts
    /\ max_length \in 0..MaxSplitLen
    /\ result = NotCalled

call_split_long_string ==
    /\ ~ result.called
    /\ result' = [called |-> TRUE, segments |-> split_long_string(text, max_length)]
    /\ UNCHANGED <<botVars, cadence, clock, delay, text, max_length>>

SpecSplit == SplitInit /\ [][call_split_long_string]_vars

----------------------------------------------------------------------------
(* The top of the while loop on its own: every hour, sampled minutes, seconds *)
(* and microseconds, every cadence up to MaxCadence                           *)

Minutes == {0, 15, 59}
Seconds == {0, 30, 59}
Microseconds == {0, 1, 999999}

SchedInit ==
    /\ BotInit
    /\ user = "user"
    /\ cadence \in 1..MaxCadence
    /\ clock \in [day : {0}, hour : Hours, minute : Minutes, second : Seconds,
                  microsecond : Microseconds]
    /\ delay = NoDelay
    /\ text = <<>>
    /\ max_length = 0
    /\ result = NotCalled

\* one pass over lines 102-108: compute the delay, then sleep
compute_sleep ==
    /\ pc = "not_started"
    /\ sleep
    /\ UNCHANGED <<lists, messages, initialized, cadence, user, clock, lines, calls,
                   cmd, sent, ready, tasks, ticks, text, max_length, result>>

\* asyncio.sleep(seconds_till_next_run) is over
sleep_over ==
    /\ pc = "sleep"
    /\ clock' = TimeAfter(clock, delay)
    /\ pc' = "woke"
    /\ UNCHANGED <<lists, messages, initialized, cadence, user, lines, delay, calls,
                   cmd, sent, ready, tasks, ticks, text, max_length, result>>

SchedNext == compute_sleep \/ sleep_over

SpecSched == SchedInit /\ [][SchedNext]_vars

----------------------------------------------------------------------------
(* Claims about split_long_string (under SpecSplit) *)

\* the maximal runs of non-whitespace characters of s, as a set of <<first, last>>
WordSpans(s) ==
    {<<i, j>> \in (1..Len(s)) \X (1..Len(s)) :
        /\ i <= j
        /\ \A k \in i..j : s[k] \notin Whitespace
        /\ (i = 1 \/ s[i - 1] \in Whitespace)
        /\ (j = Len(s) \/ s[j + 1] \in Whitespace)}

LongestWord(s) ==
    IF WordSpans(s) = {} THEN 0
    ELSE LET w == CHOOSE w \in WordSpans(s) :
                    \A v \in WordSpans(s) : v[2] - v[1] <= w[2] - w[1]
         IN  w[2] - w[1] + 1

\* s with every maximal run of whitespace replaced by one space
RECURSIVE Normalized(_)
Normalized(s) ==
    IF s = <<>> THEN <<>>
    ELSE IF s[1] \in Whitespace
         THEN IF Len(s) > 1 /\ s[2] \in Whitespace
              THEN Normalized(Tail(s))
              ELSE <<" ">> \o Normalized(Tail(s))
         ELSE <<s[1]>> \o Normalized(Tail(s))

\* " ".join(segments)
RECURSIVE Joined(_)
Joined(segments) ==
    IF segments = <<>> THEN <<>>
    ELSE IF Len(segments) = 1 THEN segments[1]
    ELSE segments[1] \o <<" ">> \o Joined(Tail(segments))

\* C8: when max_length is at least the length of the longest word of text, the
\* segments of split_long_string(text, max_length) joined with single spaces are
\* text with each run of whitespace replaced by one space, and every segment has
\* length at most max_length.
C8_RoundTrip ==
    (result.called /\ max_length >= LongestWord(text)) =>
        /\ Joined(result.segments) = Normalized(text)
        /\ \A k \in 1..Len(result.segments) : Len(result.segments[k]) <= max_length

\* C9: split_long_string returns zero segments for the empty text and at least
\* one segment for every non-empty text.
C9_SegmentCount ==
    result.called =>
        IF text = <<>> THEN Len(result.segments) = 0 ELSE Len(result.segments) >= 1

----------------------------------------------------------------------------
(* Claims about the scheduler arithmetic (under SpecSched) *)

\* C5: now + seconds_till_next_run is the top of an hour whose hour of day is
\* divisible by the cadence.
C5_Alignment ==
    pc = "woke" =>
        /\ clock.minute = 0 /\ clock.second = 0 /\ clock.microsecond = 0
        /\ clock.hour % cadence = 0

AtTopOfHour(t) == t.minute = 0 /\ t.second = 0 /\ t.microsecond = 0

HourNumber(t) == t.day * 24 + t.hour

QuarterPastTwo ==
    [day |-> 0, hour |-> 2, minute |-> 15, second |-> 0, microsecond |-> 0]

\* C10: for cadence 1 the delay leads exactly to the next hour boundary and lies
\* between 0 and 3600 seconds; for cadence 3 at 02:15:00 it is 2700 seconds, so
\* that the next tick is at 03:00:00.
C10_Delay ==
    pc = "sleep" =>
        /\ cadence = 1 =>
              /\ AtTopOfHour(TimeAfter(clock, delay))
              /\ HourNumber(TimeAfter(clock, delay)) = HourNumber(clock) + 1
              /\ delay.sec >= 0
              /\ delay.sec < 3600 \/ (delay.sec = 3600 /\ delay.us = 0)
        /\ (cadence = 3 /\ clock = QuarterPastTwo) =>
              /\ delay = [sec |-> 2700, us |-> 0]
              /\ TimeAfter(clock, delay) = [QuarterPastTwo EXCEPT !.hour = 3, !.minute = 0]

C10_Witness ==
    /\ pc = "sleep"
    /\ cadence = 3
    /\ clock = QuarterPastTwo
    /\ delay.sec = 2700

====
